---- MODULE Spec2Model ----
(***************************************************************************)
(* Model of internal/engine/docker_compose_log_manager.go:                 *)
(* DockerComposeLogManager (diff, OnChange, consumeLogs), the watch record *)
(* dockerComposeLogWatch, and the two log writers with their filter.       *)
(*                                                                         *)
(* A watch record is identified by its index in the sequence `watch`; the  *)
(* Go code copies the struct by value, and every copy shares the same      *)
(* context, cancel function and terminationTime channel, which the model   *)
(* keeps per index.                                                        *)
(***************************************************************************)
EXTENDS Integers, Sequences, FiniteSets, TLC

\* ---------------------------------------------------------------- bounds
\* Number of watch records one run may create.
MaxWatches == 2
\* Longest tail appended to a (partial) noise prefix when building chunks.
MaxTail == 2

\* ------------------------------------------------------------ input sets
\* model.ManifestName values in the store.
Names == {"fe", "be"}
\* The manifests a name can have: a docker-compose service with its
\* DCInfo().ConfigPath, or a manifest of another backend (empty DCInfo).
Manifests ==
    {[dc |-> TRUE, configPath |-> "docker-compose.yml"],
     [dc |-> FALSE, configPath |-> ""]}
\* The context the caller passes to OnChange: the engine's own.
Ctxs == {"ctx"}
\* time.Unix(0, 0)
Epoch == 0
\* The stop time of a goroutine that has sent none yet.
NoTime == Epoch - 1

VARIABLES
    watches,          \* m.watches: ManifestName -> index of its watch record
    watch,            \* every dockerComposeLogWatch created so far
    cancelCalls,      \* per record: how often its cancel() was invoked
    ctxDone,          \* the caller contexts that have been cancelled
    terminationTime,  \* per record: contents of its chan time.Time (cap 1)
    task,             \* per record: the consumeLogs goroutine
    openReq,          \* per record: arguments of its StreamLogs calls
    now,              \* the wall clock read by time.Now()
    oc,               \* the frame of the OnChange call in progress
    wr                \* observation of the last Write on a log writer

vars == <<watches, watch, cancelCalls, ctxDone, terminationTime,
          task, openReq, now, oc, wr>>

\* ------------------------------------------------------------- helpers
RECURSIVE Perms(_)
\* Every ordering of a finite set: Go's map iteration order is unspecified.
Perms(S) ==
    IF S = {} THEN {<<>>}
    ELSE UNION {{<<x>> \o p : p \in Perms(S \ {x})} : x \in S}

\* Every value the store's state can take.
StoreStates ==
    [WatchMounts : BOOLEAN,
     ManifestStates : UNION {[S -> Manifests] : S \in SUBSET Names}]

\* ms.Manifest.IsDC()
IsDC(st, n) == st.ManifestStates[n].dc

\* (mutant) a derived context that does not follow its parent.
CtxErr_OwnCancelOnly(id) == cancelCalls[id] > 0

\* existing.ctx.Err() != nil: a context made by context.WithCancel(ctx) is
\* done once its own cancel ran or its parent is done.
CtxErr(id) == cancelCalls[id] > 0 \/ watch[id].parent \in ctxDone

\* The frame of OnChange when no call is in progress.
IdleFrame ==
    [pc |-> "idle", ctx |-> "ctx", state |-> [WatchMounts |-> FALSE,
     ManifestStates |-> <<>>], todo |-> {}, cur |-> "", setup |-> <<>>,
     teardown |-> <<>>, i |-> 0, log |-> <<>>, watches0 |-> <<>>,
     now0 |-> 0]

\* The goroutine of a record before `go m.consumeLogs(watch, st)`.
NoTask ==
    [pc |-> "none", err |-> FALSE, cause |-> "", stream |-> "none",
     logged |-> 0, sent |-> NoTime]

\* No Write has been observed yet.
NoWrite ==
    [writer |-> "none", id |-> 0, p |-> <<>>, n |-> 0, err |-> FALSE,
     sink |-> <<>>, events |-> <<>>]

Init ==
    /\ watches = <<>>
    /\ watch = <<>>
    /\ cancelCalls = <<>>
    /\ ctxDone = {}
    /\ terminationTime = <<>>
    /\ task = <<>>
    /\ openReq = <<>>
    /\ now = 1
    /\ oc = IdleFrame
    /\ wr = NoWrite

\* ------------------------------------------------------- the environment
\* The manifests among todo for which a diff reading st makes a record:
\* the docker-compose ones without a record or, if restart, with any record
\* and else with a record whose context is done.
NeedsWatch(st, todo, restart) ==
    {n \in todo \cap DOMAIN st.ManifestStates :
        /\ IsDC(st, n)
        /\ n \in DOMAIN watches => (restart \/ CtxErr(watches[n]))}

\* A caller cancels a context it passes (or passed) to OnChange. While a
\* diff runs it does so only if the records that diff then makes fit the
\* bound.
CancelCtx(c) ==
    /\ c \notin ctxDone
    /\ oc.pc \in {"diff", "recv"} =>
         Len(watch) + Cardinality(NeedsWatch(oc.state, oc.todo, TRUE))
           <= MaxWatches
    /\ ctxDone' = ctxDone \cup {c}
    /\ UNCHANGED <<watches, watch, cancelCalls, terminationTime,
                   task, openReq, now, oc, wr>>

\* ------------------------------------------------------------------ diff
\* The map m.watches with key n set to record id.
MapPut(m, n, id) ==
    [k \in DOMAIN m \cup {n} |-> IF k = n THEN id ELSE m[k]]

\* The map m.watches without the keys in ks.
MapDelete(m, ks) == [k \in DOMAIN m \ ks |-> m[k]]

\* The struct literal of diff: a watch for manifest n with a context derived
\* from ctx. prev is the record it replaces (0: none) and bornDone tells
\* whether ctx was done already; Go keeps no such fields, they are kept to
\* state the resume and the replacement properties.
NewWatch(ctx, n, path, start, prev) ==
    [parent |-> ctx, name |-> n, dcConfigPath |-> path,
     startWatchTime |-> start, prev |-> prev, bornDone |-> ctx \in ctxDone]

\* (mutant) diff without the WatchMounts test.
OnChangeBegin_IgnoreFlag(c, s) ==
    /\ oc.pc = "idle"
    /\ Len(watch) + Cardinality(NeedsWatch(s, Names, FALSE)) <= MaxWatches
    /\ oc' = [IdleFrame EXCEPT
                !.pc = "diff", !.ctx = c, !.state = s,
                !.todo = DOMAIN s.ManifestStates, !.i = 1,
                !.watches0 = watches, !.now0 = now]
    /\ UNCHANGED <<watches, watch, cancelCalls, ctxDone,
                   terminationTime, task, openReq, now, wr>>

\* OnChange(c, st) is entered and diff takes the read lock and reads the
\* store's state, here s: what the store holds at that moment is an input
\* of the call. With WatchMounts false diff returns nil, nil at once.
\* A call starts only if the records it makes fit the bound.
OnChangeBegin(c, s) ==
    /\ oc.pc = "idle"
    /\ s.WatchMounts =>
         Len(watch) + Cardinality(NeedsWatch(s, Names, FALSE)) <= MaxWatches
    /\ oc' = [IdleFrame EXCEPT
                !.pc = IF s.WatchMounts THEN "diff" ELSE "cancel",
                !.ctx = c,
                !.state = s,
                !.todo = IF s.WatchMounts
                         THEN DOMAIN s.ManifestStates ELSE {},
                !.i = 1,
                !.watches0 = watches,
                !.now0 = now]
    /\ UNCHANGED <<watches, watch, cancelCalls, ctxDone,
                   terminationTime, task, openReq, now, wr>>

\* (mutant) the default resume point taken from the clock.
InitialStartWatchTime_Now == now

\* startWatchTime := time.Unix(0, 0)
InitialStartWatchTime == Epoch

\* The tail of the first loop's body: make the record, store it in the map
\* and append it to setup.
DiffSetup(n, start, prev) ==
    /\ watch' = Append(watch,
                  NewWatch(oc.ctx, n, oc.state.ManifestStates[n].configPath,
                           start, prev))
    /\ cancelCalls' = Append(cancelCalls, 0)
    /\ terminationTime' = IF prev = 0 THEN Append(terminationTime, <<>>)
                          ELSE Append([terminationTime EXCEPT ![prev] = Tail(@)],
                                      <<>>)
    /\ task' = Append(task, NoTask)
    /\ openReq' = Append(openReq, <<>>)
    /\ watches' = MapPut(watches, n, Len(watch) + 1)
    /\ oc' = [oc EXCEPT !.pc = "diff", !.todo = @ \ {n}, !.cur = "",
                        !.setup = Append(@, Len(watch) + 1)]

\* (mutant) the iteration without the `continue` of a live watcher: a
\* record whose context is not done is replaced by a fresh one.
DiffVisit_NoSkip(n) ==
    /\ oc.pc = "diff"
    /\ n \in oc.todo
    /\ IF ~IsDC(oc.state, n)
       THEN /\ oc' = [oc EXCEPT !.todo = @ \ {n}]
            /\ UNCHANGED <<watches, watch, cancelCalls, terminationTime,
                           task, openReq>>
       ELSE IF n \in DOMAIN watches /\ CtxErr(watches[n])
       THEN /\ oc' = [oc EXCEPT !.pc = "recv", !.cur = n]
            /\ UNCHANGED <<watches, watch, cancelCalls, terminationTime,
                           task, openReq>>
       ELSE /\ Len(watch) < MaxWatches
            /\ DiffSetup(n, InitialStartWatchTime, 0)
    /\ UNCHANGED <<ctxDone, now, wr>>

\* One iteration of `for _, ms := range state.ManifestStates`, up to the
\* channel receive.
DiffVisit(n) ==
    /\ oc.pc = "diff"
    /\ n \in oc.todo
    /\ IF ~IsDC(oc.state, n)
       THEN /\ oc' = [oc EXCEPT !.todo = @ \ {n}]
            /\ UNCHANGED <<watches, watch, cancelCalls, terminationTime,
                           task, openReq>>
       ELSE IF n \in DOMAIN watches
       THEN IF ~CtxErr(watches[n])
            THEN \* Watcher is still active, no action needed.
                 /\ oc' = [oc EXCEPT !.todo = @ \ {n}]
                 /\ UNCHANGED <<watches, watch, cancelCalls, terminationTime,
                                task, openReq>>
            ELSE \* startWatchTime = <-existing.terminationTime
                 /\ oc' = [oc EXCEPT !.pc = "recv", !.cur = n]
                 /\ UNCHANGED <<watches, watch, cancelCalls, terminationTime,
                                task, openReq>>
       ELSE DiffSetup(n, InitialStartWatchTime, 0)
    /\ UNCHANGED <<ctxDone, now, wr>>

\* (mutant) the replacement resumes from the time of the diff call.
DiffRecv_Now ==
    /\ oc.pc = "recv"
    /\ terminationTime[watches[oc.cur]] # <<>>
    /\ DiffSetup(oc.cur, now, watches[oc.cur])
    /\ UNCHANGED <<ctxDone, now, wr>>

\* The receive `<-existing.terminationTime` completes: it blocks until the
\* previous goroutine has sent its stop time.
DiffRecv ==
    /\ oc.pc = "recv"
    /\ terminationTime[watches[oc.cur]] # <<>>
    /\ DiffSetup(oc.cur, Head(terminationTime[watches[oc.cur]]),
                 watches[oc.cur])
    /\ UNCHANGED <<ctxDone, now, wr>>

\* The keys the second loop deletes: those not in state.ManifestStates.
NotInState(m, st) == {k \in DOMAIN m : k \notin DOMAIN st.ManifestStates}

\* (mutant) the second loop appends to teardown and deletes nothing.
DiffTeardown_NoDelete ==
    /\ oc.pc = "diff"
    /\ oc.todo = {}
    /\ \E order \in Perms(NotInState(watches, oc.state)) :
         oc' = [oc EXCEPT !.pc = "cancel",
                  !.teardown = [j \in 1..Len(order) |-> watches[order[j]]]]
    /\ UNCHANGED <<watches, watch, cancelCalls, ctxDone, terminationTime,
                   task, openReq, now, wr>>

\* `for key, value := range m.watches`: delete and append to teardown, in
\* the map's iteration order; then diff returns and the lock is released.
DiffTeardown ==
    /\ oc.pc = "diff"
    /\ oc.todo = {}
    /\ \E order \in Perms(NotInState(watches, oc.state)) :
         /\ oc' = [oc EXCEPT !.pc = "cancel",
                     !.teardown = [j \in 1..Len(order) |-> watches[order[j]]]]
         /\ watches' = MapDelete(watches, NotInState(watches, oc.state))
    /\ UNCHANGED <<watch, cancelCalls, ctxDone, terminationTime,
                   task, openReq, now, wr>>

\* -------------------------------------------------------------- OnChange
\* `for _, watch := range teardown { watch.cancel() }`, one entry.
OnChangeCancel ==
    /\ oc.pc = "cancel"
    /\ oc.i <= Len(oc.teardown)
    /\ cancelCalls' = [cancelCalls EXCEPT ![oc.teardown[oc.i]] = @ + 1]
    /\ oc' = [oc EXCEPT !.i = @ + 1,
                        !.log = Append(@, <<"cancel", oc.teardown[oc.i]>>)]
    /\ UNCHANGED <<watches, watch, ctxDone, terminationTime, task,
                   openReq, now, wr>>

\* (mutant) the teardown loop stops one entry early.
OnChangeCancelled_OffByOne ==
    /\ oc.pc = "cancel"
    /\ oc.i >= Len(oc.teardown)
    /\ oc' = [oc EXCEPT !.pc = "launch", !.i = 1]
    /\ UNCHANGED <<watches, watch, cancelCalls, ctxDone,
                   terminationTime, task, openReq, now, wr>>

\* The teardown loop is over; the setup loop starts.
OnChangeCancelled ==
    /\ oc.pc = "cancel"
    /\ oc.i > Len(oc.teardown)
    /\ oc' = [oc EXCEPT !.pc = "launch", !.i = 1]
    /\ UNCHANGED <<watches, watch, cancelCalls, ctxDone,
                   terminationTime, task, openReq, now, wr>>

\* `for _, watch := range setup { go m.consumeLogs(watch, st) }`, one entry.
OnChangeLaunch ==
    /\ oc.pc = "launch"
    /\ oc.i <= Len(oc.setup)
    /\ task' = [task EXCEPT ![oc.setup[oc.i]].pc = "open"]
    /\ oc' = [oc EXCEPT !.i = @ + 1,
                        !.log = Append(@, <<"go", oc.setup[oc.i]>>)]
    /\ UNCHANGED <<watches, watch, cancelCalls, ctxDone,
                   terminationTime, openReq, now, wr>>

\* (mutant) the setup loop stops one entry early.
OnChangeReturn_OffByOne ==
    /\ oc.pc = "launch"
    /\ oc.i >= Len(oc.setup)
    /\ oc' = IdleFrame
    /\ UNCHANGED <<watches, watch, cancelCalls, ctxDone,
                   terminationTime, task, openReq, now, wr>>

\* OnChange returns.
OnChangeReturn ==
    /\ oc.pc = "launch"
    /\ oc.i > Len(oc.setup)
    /\ oc' = IdleFrame
    /\ UNCHANGED <<watches, watch, cancelCalls, ctxDone,
                   terminationTime, task, openReq, now, wr>>

\* ----------------------------------------------------------- consumeLogs
\* The arguments of m.dcc.StreamLogs(watch.ctx, watch.dcConfigPath,
\* watch.name.String()), each tagged with what it is.
StreamLogsArgs(id) ==
    <<[kind |-> "ctx", v |-> id],
      [kind |-> "configPath", v |-> watch[id].dcConfigPath],
      [kind |-> "serviceName", v |-> watch[id].name]>>

\* (mutant) the stop time sent at the end of the function body instead of
\* in a defer: the early return of a failed open skips it.
ConsumeLogsOpen_NoDefer(id, ok) ==
    /\ task[id].pc = "open"
    /\ openReq' = [openReq EXCEPT ![id] = Append(@, StreamLogsArgs(id))]
    /\ task' = [task EXCEPT
                  ![id].pc = IF ok THEN "copy" ELSE "done",
                  ![id].cause = IF ok THEN @ ELSE "open",
                  ![id].stream = IF ok THEN "open" ELSE "none",
                  ![id].logged = IF ok THEN @ ELSE @ + 1]
    /\ UNCHANGED <<watches, watch, cancelCalls, ctxDone,
                   terminationTime, now, oc, wr>>

\* readCloser, err := m.dcc.StreamLogs(...); on an error the goroutine logs
\* it and returns, which leaves only the deferred send to run.
ConsumeLogsOpen(id, ok) ==
    /\ task[id].pc = "open"
    /\ openReq' = [openReq EXCEPT ![id] = Append(@, StreamLogsArgs(id))]
    /\ task' = [task EXCEPT
                  ![id].pc = IF ok THEN "copy" ELSE "send",
                  ![id].cause = IF ok THEN @ ELSE "open",
                  ![id].stream = IF ok THEN "open" ELSE "none",
                  ![id].logged = IF ok THEN @ ELSE @ + 1]
    /\ UNCHANGED <<watches, watch, cancelCalls, ctxDone,
                   terminationTime, now, oc, wr>>

\* io.Copy(multiWriter, NewHardCancelReader(watch.ctx, readCloser)) returns:
\* nil at the end of the stream, an error when a read or a write failed or
\* the context was done. The bytes it moves go through the two writers,
\* whose behaviour is the subject of SpecWriter.
ConsumeLogsCopy(id, err) ==
    /\ task[id].pc = "copy"
    /\ task' = [task EXCEPT ![id].pc = "check", ![id].err = err,
                            ![id].cause = IF err THEN "copy" ELSE "eof"]
    /\ UNCHANGED <<watches, watch, cancelCalls, ctxDone,
                   terminationTime, openReq, now, oc, wr>>

\* (mutant) every Copy error is logged, the context not looked at.
ConsumeLogsReturn_AlwaysLog(id) ==
    /\ task[id].pc = "check"
    /\ task' = [task EXCEPT
                  ![id].pc = "send",
                  ![id].err = FALSE,
                  ![id].stream = "closed",
                  ![id].logged = IF task[id].err THEN @ + 1 ELSE @]
    /\ UNCHANGED <<watches, watch, cancelCalls, ctxDone,
                   terminationTime, openReq, now, oc, wr>>

\* (mutant) the goroutine returns without the deferred Close.
ConsumeLogsReturn_NoClose(id) ==
    /\ task[id].pc = "check"
    /\ task' = [task EXCEPT
                  ![id].pc = "send",
                  ![id].err = FALSE,
                  ![id].logged = IF task[id].err /\ ~CtxErr(id)
                                 THEN @ + 1 ELSE @]
    /\ UNCHANGED <<watches, watch, cancelCalls, ctxDone,
                   terminationTime, openReq, now, oc, wr>>

\* if err != nil && watch.ctx.Err() == nil { log; return }, and then the
\* deferred readCloser.Close(), registered last and so run first. Close
\* touches only the goroutine's own stream, so it shares the step.
ConsumeLogsReturn(id) ==
    /\ task[id].pc = "check"
    /\ task' = [task EXCEPT
                  ![id].pc = "send",
                  ![id].err = FALSE,
                  ![id].stream = "closed",
                  ![id].logged = IF task[id].err /\ ~CtxErr(id)
                                 THEN @ + 1 ELSE @]
    /\ UNCHANGED <<watches, watch, cancelCalls, ctxDone,
                   terminationTime, openReq, now, oc, wr>>

\* (mutant) the goroutine removes its own record from the map as it goes.
ConsumeLogsSend_DropsRecord(id) ==
    /\ task[id].pc = "send"
    /\ Len(terminationTime[id]) < 1
    /\ terminationTime' = [terminationTime EXCEPT ![id] = Append(@, now)]
    /\ task' = [task EXCEPT ![id].pc = "done", ![id].sent = now]
    /\ now' = now + 1
    /\ watches' = MapDelete(watches,
                     {n \in DOMAIN watches : watches[n] = id})
    /\ UNCHANGED <<watch, cancelCalls, ctxDone, openReq, oc, wr>>

\* The deferred `watch.terminationTime <- time.Now()`, after which the
\* goroutine is gone. The send blocks while the channel's one slot is full.
ConsumeLogsSend(id) ==
    /\ task[id].pc = "send"
    /\ Len(terminationTime[id]) < 1
    /\ terminationTime' = [terminationTime EXCEPT ![id] = Append(@, now)]
    /\ task' = [task EXCEPT ![id].pc = "done", ![id].sent = now]
    /\ now' = now + 1
    /\ UNCHANGED <<watches, watch, cancelCalls, ctxDone, openReq,
                   oc, wr>>

\* --------------------------------------------------- filter and writers
\* []byte("Attaching to ")
NoisePrefix ==
    <<"A", "t", "t", "a", "c", "h", "i", "n", "g", " ", "t", "o", " ">>

\* Bytes that follow or precede a prefix in the chunks tried.
TailBytes == {"A", "x"}

\* Sequences over S of length at most n.
SeqsUpTo(S, n) == UNION {[1..k -> S] : k \in 0..n}

\* The chunks written: every cut of the noise prefix, optionally after one
\* other byte, followed by a short tail.
Chunks ==
    {lead \o SubSeq(NoisePrefix, 1, k) \o tail :
        lead \in SeqsUpTo({"x"}, 1), k \in 0..Len(NoisePrefix),
        tail \in SeqsUpTo(TailBytes, MaxTail)}

\* bytes.HasPrefix(p, prefix)
HasPrefix(p, prefix) ==
    Len(p) >= Len(prefix) /\ SubSeq(p, 1, Len(prefix)) = prefix

\* (mutant) the filter matching only the bare banner.
shouldFilterDCLog_Equal(p) == p = NoisePrefix

shouldFilterDCLog(p) == HasPrefix(p, NoisePrefix)

\* append([]byte{}, p...)
CopyBytes(p) == [j \in 1..Len(p) |-> p[j]]

\* What the display sink (logger.Get(ctx).Writer(InfoLvl)) may answer to
\* Write(p): all written, or an error after some of it.
SinkResults(p) ==
    {[n |-> Len(p), err |-> FALSE]} \cup {[n |-> k, err |-> TRUE] : k \in {0, Len(p)}}

\* DockerComposeLogActionWriter.Write: the (n, err) it returns and the
\* actions it passes to store.Dispatch.
ActionWriterWrite(manifestName, p) ==
    IF shouldFilterDCLog(p)
    THEN [n |-> Len(p), err |-> FALSE, sink |-> <<>>, events |-> <<>>]
    ELSE [n |-> Len(p), err |-> FALSE, sink |-> <<>>,
          events |-> <<[ManifestName |-> manifestName, Log |-> CopyBytes(p)]>>]

\* DockerComposeGlobalLogWriter.Write: the (n, err) it returns and the
\* chunks it hands to w.writer, which answers r.
GlobalLogWriterWrite(p, r) ==
    IF shouldFilterDCLog(p)
    THEN [n |-> Len(p), err |-> FALSE, sink |-> <<>>, events |-> <<>>]
    ELSE [n |-> r.n, err |-> r.err, sink |-> <<p>>, events |-> <<>>]

\* io.Copy hands a chunk read from the stream of record id to the action
\* writer built for it (manifestName: name).
ConsumeLogsWriteAction(id, p) ==
    /\ task[id].pc = "copy"
    /\ wr' = [writer |-> "action", id |-> id, p |-> p]
               @@ ActionWriterWrite(watch[id].name, p)
    /\ UNCHANGED <<watches, watch, cancelCalls, ctxDone, terminationTime,
                   task, openReq, now, oc>>

\* io.Copy hands a chunk read from the stream of record id to the global
\* log writer.
ConsumeLogsWriteGlobal(id, p, r) ==
    /\ task[id].pc = "copy"
    /\ wr' = [writer |-> "global", id |-> id, p |-> p]
               @@ GlobalLogWriterWrite(p, r)
    /\ UNCHANGED <<watches, watch, cancelCalls, ctxDone, terminationTime,
                   task, openReq, now, oc>>

\* A state of Spec in which one goroutine is copying: manifest n was set up
\* by a first OnChange, launched, and its stream opened.
InitWriter ==
    \E n \in Names :
      /\ ctxDone = {}
      /\ watches = MapPut(<<>>, n, 1)
      /\ watch = <<NewWatch("ctx", n, "docker-compose.yml", Epoch, 0)>>
      /\ cancelCalls = <<0>>
      /\ terminationTime = << <<>> >>
      /\ task = <<[NoTask EXCEPT !.pc = "copy", !.stream = "open"]>>
      /\ openReq = <<StreamLogsArgs(1)>>
      /\ now = 1
      /\ oc = IdleFrame
      /\ wr = NoWrite

NextWriter ==
    \/ \E id \in 1..Len(task) : \E p \in Chunks : ConsumeLogsWriteAction(id, p)
    \/ \E id \in 1..Len(task) : \E p \in Chunks :
         \E r \in SinkResults(p) : ConsumeLogsWriteGlobal(id, p, r)

\* The writers under every chunk, from a state in which a stream is copied.
SpecWriter == InitWriter /\ [][NextWriter]_vars

\* ------------------------------------------------------------------ Next
Next ==
    \/ \E c \in Ctxs : CancelCtx(c)
    \/ \E c \in Ctxs : \E s \in StoreStates : OnChangeBegin(c, s)
    \/ \E n \in Names : DiffVisit(n)
    \/ DiffRecv
    \/ DiffTeardown
    \/ OnChangeCancel
    \/ OnChangeCancelled
    \/ OnChangeLaunch
    \/ OnChangeReturn
    \/ \E id \in 1..Len(task) : \E ok \in BOOLEAN : ConsumeLogsOpen(id, ok)
    \/ \E id \in 1..Len(task) : \E err \in BOOLEAN : ConsumeLogsCopy(id, err)
    \/ \E id \in 1..Len(task) : ConsumeLogsReturn(id)
    \/ \E id \in 1..Len(task) : ConsumeLogsSend(id)

Spec == Init /\ [][Next]_vars

\* A step of the OnChange call in progress.
OnChangeStep ==
    \/ \E n \in Names : DiffVisit(n)
    \/ DiffRecv
    \/ DiffTeardown
    \/ OnChangeCancel
    \/ OnChangeCancelled
    \/ OnChangeLaunch
    \/ OnChangeReturn

\* A step of the goroutine of record id that it is bound to take: the
\* StreamLogs call returns, Copy returns once the context is done (the
\* reads of NewHardCancelReader fail then), and the return and the deferred
\* calls run. A Copy on a live context may go on forever.
ConsumeLogsExitStep(id) ==
    /\ id <= Len(task)
    /\ \/ \E ok \in BOOLEAN : ConsumeLogsOpen(id, ok)
       \/ CtxErr(id) /\ \E err \in BOOLEAN : ConsumeLogsCopy(id, err)
       \/ ConsumeLogsReturn(id)
       \/ ConsumeLogsSend(id)

\* Spec with the scheduling the Go runtime gives: the thread in OnChange
\* and every goroutine keep running.
FairSpec ==
    /\ Spec
    /\ WF_vars(OnChangeStep)
    /\ \A id \in 1..MaxWatches : WF_vars(ConsumeLogsExitStep(id))

TypeOK ==
    /\ oc.pc # "idle" => oc.state \in StoreStates
    /\ DOMAIN watches \subseteq Names
    /\ \A n \in DOMAIN watches : watches[n] \in 1..Len(watch)
    /\ Len(watch) <= MaxWatches
    /\ Len(cancelCalls) = Len(watch)
    /\ Len(task) = Len(watch)
    /\ Len(terminationTime) = Len(watch)
    /\ \A id \in 1..Len(watch) : Len(terminationTime[id]) <= 1

\* ====================================================== the properties
\* A source is desired by a snapshot: watching is enabled, the name is in
\* the snapshot and its manifest is a docker-compose one.
Desired(st, n) ==
    /\ st.WatchMounts
    /\ n \in DOMAIN st.ManifestStates
    /\ st.ManifestStates[n].dc

\* diff has returned to OnChange, whose frame holds its two results.
DiffReturned == oc.pc \in {"cancel", "launch"}

\* The positions of setup, and of teardown, that hold a record named n.
SetupOf(n) == {i \in 1..Len(oc.setup) : watch[oc.setup[i]].name = n}
TeardownOf(n) == {i \in 1..Len(oc.teardown) : watch[oc.teardown[i]].name = n}

\* The goroutine of a record was launched and has not returned.
TaskAlive(id) == task[id].pc \in {"open", "copy", "check", "send"}

\* The cancel() calls of record id in the OnChange call in progress.
Cancels(id) == {i \in 1..Len(oc.log) : oc.log[i] = <<"cancel", id>>}

\* C1: after a diff with watching enabled, every desired source that had no
\* record in the active map has exactly one entry in setup, that entry
\* resumes from the epoch and is the record now in the map, and teardown
\* has no entry for the source.
C1_NewSourceSetUp ==
    (DiffReturned /\ oc.state.WatchMounts) =>
      \A n \in Names :
        (Desired(oc.state, n) /\ n \notin DOMAIN oc.watches0) =>
          /\ Cardinality(SetupOf(n)) = 1
          /\ \A i \in SetupOf(n) :
               /\ watch[oc.setup[i]].startWatchTime = Epoch
               /\ n \in DOMAIN watches
               /\ watches[n] = oc.setup[i]
          /\ TeardownOf(n) = {}

\* C1 witness: diff returned a setup entry for a source that was inactive,
\* after another goroutine had already sent a stop time.
C1_Witness ==
    /\ DiffReturned
    /\ now > 1
    /\ \E n \in Names :
         /\ Desired(oc.state, n)
         /\ n \notin DOMAIN oc.watches0
         /\ Cardinality(SetupOf(n)) = 1

\* C2: after a diff with watching enabled, every record of the active map
\* whose source is not desired (absent from the snapshot, or present but not
\* of the docker-compose backend) has exactly one entry in teardown and its
\* name is gone from the map.
C2_UndesiredTornDown ==
    (DiffReturned /\ oc.state.WatchMounts) =>
      \A n \in DOMAIN oc.watches0 :
        ~Desired(oc.state, n) =>
          /\ Cardinality({i \in 1..Len(oc.teardown) :
                            oc.teardown[i] = oc.watches0[n]}) = 1
          /\ n \notin DOMAIN watches

\* C3: during and after a diff, a desired source whose record's context is
\* not done and whose goroutine is running is in neither list, keeps its
\* record in the map, and OnChange neither cancels that record nor launches
\* a goroutine for the source.
C3_Idempotent ==
    oc.pc # "idle" =>
      \A n \in DOMAIN oc.watches0 :
        (/\ Desired(oc.state, n)
         /\ ~CtxErr(oc.watches0[n])
         /\ TaskAlive(oc.watches0[n])) =>
          /\ SetupOf(n) = {}
          /\ TeardownOf(n) = {}
          /\ n \in DOMAIN watches
          /\ watches[n] = oc.watches0[n]
          /\ Cancels(oc.watches0[n]) = {}
          /\ \A i \in 1..Len(oc.log) : watch[oc.log[i][2]].name # n

\* C3 witness: OnChange has finished its loops for a snapshot that sets up
\* one source while another desired source is being streamed.
C3_Witness ==
    /\ oc.pc = "launch"
    /\ oc.i > Len(oc.setup)
    /\ oc.setup # <<>>
    /\ \E n \in DOMAIN oc.watches0 :
         /\ Desired(oc.state, n)
         /\ ~CtxErr(oc.watches0[n])
         /\ task[oc.watches0[n]].pc = "copy"

\* C4: in a call that read WatchMounts false, setup and teardown are empty,
\* the active map is as it was on entry, and OnChange has cancelled and
\* launched nothing.
C4_WatchingOff ==
    (oc.pc # "idle" /\ ~oc.state.WatchMounts) =>
      /\ oc.setup = <<>>
      /\ oc.teardown = <<>>
      /\ watches = oc.watches0
      /\ oc.log = <<>>

\* C4 witness: OnChange is through both loops with watching disabled, while
\* the map holds a record absent from the snapshot and the snapshot holds a
\* docker-compose source absent from the map, its goroutine still copying.
C4_Witness ==
    /\ oc.pc = "launch"
    /\ ~oc.state.WatchMounts
    /\ \E n \in DOMAIN watches :
         /\ n \notin DOMAIN oc.state.ManifestStates
         /\ task[watches[n]].pc = "copy"
    /\ \E n \in DOMAIN oc.state.ManifestStates :
         oc.state.ManifestStates[n].dc /\ n \notin DOMAIN watches

\* C5: a record that replaced another resumes from exactly the stop time
\* the replaced record's goroutine sent, and that is a record of the same
\* source whose goroutine has returned.
C5_ResumeContinuity ==
    \A id \in 1..Len(watch) :
      watch[id].prev # 0 =>
        /\ watch[watch[id].prev].name = watch[id].name
        /\ task[watch[id].prev].pc = "done"
        /\ watch[id].startWatchTime = task[watch[id].prev].sent
        /\ \A o \in 1..Len(watch) :
             (o # watch[id].prev /\ task[o].pc = "done") =>
               watch[id].startWatchTime # task[o].sent

\* C5 witness: a replacement record exists after the clock has moved on
\* from the stop time it resumes from.
C5_Witness ==
    \E id \in 1..Len(watch) :
      /\ watch[id].prev # 0
      /\ task[id].pc = "done"
      /\ watch[id].startWatchTime < task[id].sent

\* C6: when diff returns with watching enabled, a desired source whose
\* goroutine had exited before the call, its context not done, has a setup
\* entry that resumes from the stop time sent, and once OnChange is through
\* its setup loop that entry's goroutine is launched.
C6_CrashRestart ==
    (DiffReturned /\ oc.state.WatchMounts) =>
      \A n \in DOMAIN oc.watches0 :
        (/\ Desired(oc.state, n)
         /\ task[oc.watches0[n]].pc = "done"
         /\ task[oc.watches0[n]].sent < oc.now0
         /\ task[oc.watches0[n]].cause \in {"open", "copy", "eof"}
         /\ ~CtxErr(oc.watches0[n])) =>
          \E i \in SetupOf(n) :
            /\ watch[oc.setup[i]].startWatchTime = task[oc.watches0[n]].sent
            /\ (oc.pc = "launch" /\ oc.i > Len(oc.setup)) =>
                 task[oc.setup[i]].pc # "none"

\* C7: no two goroutines of one source name are alive at the same time.
C7_OneTaskPerName ==
    \A n \in Names :
      Cardinality({id \in 1..Len(watch) :
                     watch[id].name = n /\ TaskAlive(id)}) <= 1

\* C8: every StreamLogs call of a record passes the record's
\* startWatchTime.
C8_OpenCarriesResume ==
    \A id \in 1..Len(watch) :
      \A k \in 1..Len(openReq[id]) :
        \E j \in 1..Len(openReq[id][k]) :
          /\ openReq[id][k][j].kind = "startWatchTime"
          /\ openReq[id][k][j].v = watch[id].startWatchTime

\* p begins with the noise prefix, byte by byte.
BeginsWithNoise(p) ==
    /\ Len(p) >= Len(NoisePrefix)
    /\ \A j \in 1..Len(NoisePrefix) : p[j] = NoisePrefix[j]

\* C9: a Write of a chunk that begins with "Attaching to " returns
\* (len(chunk), nil) from either writer, writes nothing to the display sink
\* and dispatches nothing; a Write of any other chunk to the action writer
\* returns (len(chunk), nil) and dispatches exactly one action, with the
\* watch's manifest name and the chunk's bytes.
C9_FilteredWrites ==
    wr.writer # "none" =>
      IF BeginsWithNoise(wr.p)
      THEN /\ wr.n = Len(wr.p)
           /\ ~wr.err
           /\ wr.sink = <<>>
           /\ wr.events = <<>>
      ELSE wr.writer = "action" =>
             /\ wr.n = Len(wr.p)
             /\ ~wr.err
             /\ wr.events =
                  <<[ManifestName |-> watch[wr.id].name, Log |-> wr.p]>>

\* C9 witness: the action writer was given a chunk that is the noise prefix
\* followed by more bytes.
C9_Witness ==
    /\ wr.writer = "action"
    /\ BeginsWithNoise(wr.p)
    /\ Len(wr.p) > Len(NoisePrefix)

\* C10: in one OnChange call no cancel follows a launch, no teardown entry
\* is cancelled twice, and from the first launch on (and when the setup
\* loop is reached) every teardown entry has been cancelled exactly once.
C10_CancelBeforeLaunch ==
    /\ \A i, j \in 1..Len(oc.log) :
         (oc.log[i][1] = "go" /\ oc.log[j][1] = "cancel") => j < i
    /\ \A k \in 1..Len(oc.teardown) :
         Cardinality(Cancels(oc.teardown[k])) <= 1
    /\ (oc.pc = "launch" \/ \E i \in 1..Len(oc.log) : oc.log[i][1] = "go") =>
         \A k \in 1..Len(oc.teardown) :
           Cardinality(Cancels(oc.teardown[k])) = 1

\* C10 witness: OnChange is through both loops of a call that tore down one
\* record and set up another.
C10_Witness ==
    /\ oc.pc = "launch"
    /\ oc.i > Len(oc.setup)
    /\ oc.teardown # <<>>
    /\ oc.setup # <<>>

\* The records that replaced record id: each received from its channel.
Successors(id) == {r \in 1..Len(watch) : watch[r].prev = id}

\* C11: a goroutine sends its stop time exactly once, whatever ended it, and
\* into an empty channel; the channel of a record is received from at most
\* once, by the diff that replaces the record. So the channel is empty until
\* the goroutine is gone, then holds the stop time sent, and is empty again
\* exactly when a replacement took it.
C11_SendOnceRecvOnce ==
    \A id \in 1..Len(watch) :
      /\ Len(terminationTime[id]) <= 1
      /\ Cardinality(Successors(id)) <= 1
      /\ task[id].pc = "send" => terminationTime[id] = <<>>
      /\ task[id].pc # "done" =>
           /\ terminationTime[id] = <<>>
           /\ Successors(id) = {}
           /\ task[id].sent = NoTime
      /\ task[id].pc = "done" =>
           /\ task[id].sent # NoTime
           /\ task[id].cause \in {"open", "copy", "eof"}
           /\ terminationTime[id] =
                IF Successors(id) = {} THEN <<task[id].sent>> ELSE <<>>

\* C11 witness: a goroutine whose open failed has sent its stop time and a
\* replacement has received it, while another record's stop time sits
\* unreceived in its channel.
C11_Witness ==
    \E id, o \in 1..Len(watch) :
      /\ task[id].pc = "done"
      /\ task[id].cause = "open"
      /\ Successors(id) # {}
      /\ terminationTime[o] # <<>>

\* C12 (as claimed): when diff is at the receive, the record's goroutine has
\* already sent its stop time.
C12_RecvNeverBlocks ==
    oc.pc = "recv" => terminationTime[watches[oc.cur]] # <<>>

\* C12 (amended): when diff is at the receive, the record's context is done,
\* its goroutine has been launched and nobody has received its stop time:
\* the stop time is in the channel if the goroutine is gone, and is still to
\* be sent otherwise, so that the receive waits for the goroutine's exit.
C12_RecvFindsLaunchedTask ==
    oc.pc = "recv" =>
      /\ oc.cur \in DOMAIN watches
      /\ CtxErr(watches[oc.cur])
      /\ task[watches[oc.cur]].pc # "none"
      /\ Successors(watches[oc.cur]) = {}
      /\ task[watches[oc.cur]].pc = "done" =>
           terminationTime[watches[oc.cur]] = <<task[watches[oc.cur]].sent>>
      /\ task[watches[oc.cur]].pc # "done" =>
           terminationTime[watches[oc.cur]] = <<>>

\* C12 witness: diff is at the receive and the goroutine, stopped by a copy
\* error after the cancellation, has left its stop time in the channel.
C12_Witness ==
    /\ oc.pc = "recv"
    /\ task[watches[oc.cur]].pc = "done"
    /\ task[watches[oc.cur]].cause = "copy"
    /\ task[watches[oc.cur]].logged = 0
    /\ terminationTime[watches[oc.cur]] # <<>>

\* C13: every OnChange call returns; and while diff runs, every record it
\* may still have to replace (in the map, its name not yet visited, its
\* context done) has a launched goroutine whose stop time nobody received.
C13_OnChangeReturns ==
    /\ [](oc.pc \in {"diff", "recv"} =>
            \A n \in oc.todo \cap DOMAIN watches :
              CtxErr(watches[n]) =>
                /\ task[watches[n]].pc # "none"
                /\ Successors(watches[n]) = {})
    /\ (oc.pc # "idle") ~> (oc.pc = "idle")

\* C13 witness: diff waits at the receive for a goroutine that is still
\* copying under a cancelled context.
C13_Witness ==
    /\ oc.pc = "recv"
    /\ task[watches[oc.cur]].pc = "copy"
    /\ terminationTime[watches[oc.cur]] = <<>>
    /\ CtxErr(watches[oc.cur])

\* C14: when a diff with watching enabled has returned, no name of the
\* active map belongs to a goroutine that had already exited when the call
\* began, unless the call put the name in setup.
C14_MapIsStreamingOrSetup ==
    (DiffReturned /\ oc.state.WatchMounts) =>
      \A n \in DOMAIN watches :
        SetupOf(n) = {} =>
          ~(/\ task[watches[n]].pc = "done"
            /\ task[watches[n]].sent < oc.now0)

\* C15: the record that replaces a record whose goroutine exited because
\* StreamLogs failed resumes from the epoch.
C15_OpenFailureResumesFromEpoch ==
    \A id \in 1..Len(watch) :
      (watch[id].prev # 0 /\ task[watch[id].prev].cause = "open") =>
        watch[id].startWatchTime = Epoch

\* What holds of the log lines and StreamLogs calls of goroutine id.
LoggedAsItShould(id) ==
    /\ Len(openReq[id]) <= 1
    /\ task[id].logged <= 1
    /\ task[id].pc \in {"none", "open", "copy", "check"} => task[id].logged = 0
    /\ task[id].pc \in {"send", "done"} =>
         /\ Len(openReq[id]) = 1
         /\ task[id].cause = "open" => task[id].logged = 1
         /\ task[id].cause = "eof" => task[id].logged = 0
         /\ (task[id].cause = "copy" /\ task[id].logged = 0) => CtxErr(id)

\* What holds of a step, seen from goroutine id: it logs only when its open
\* fails or when it finds, after a failed Copy, its context not done; in
\* the latter case it does log; and it never goes back to opening.
LogsAsItShould(id) ==
    /\ task'[id].logged # task[id].logged =>
         /\ task'[id].logged = task[id].logged + 1
         /\ \/ task[id].pc = "open" /\ task'[id].cause = "open"
            \/ task[id].pc = "check" /\ task[id].err /\ ~CtxErr(id)
    /\ (task[id].pc = "check" /\ task'[id].pc # "check"
          /\ task[id].err /\ ~CtxErr(id)) =>
         task'[id].logged = task[id].logged + 1
    /\ task'[id].pc = "open" => task[id].pc \in {"none", "open"}
    /\ task[id].pc = "done" => task'[id] = task[id]

\* C16: a goroutine logs an error exactly when StreamLogs failed, or when
\* Copy returned an error and the context is not done when it is looked at;
\* it is silent after an error under a done context and at the end of the
\* stream; it calls StreamLogs once and never again.
C16_LogsExactlyUnexpected ==
    /\ [](\A id \in 1..Len(task) : LoggedAsItShould(id))
    /\ [][\A id \in 1..Len(task) : LogsAsItShould(id)]_vars

\* C16 witness: one goroutine has logged a Copy error and gone, another
\* has gone silently after a Copy error under the cancelled context.
C16_Witness ==
    \E id, o \in 1..Len(task) :
      /\ task[id].pc = "done" /\ task[id].cause = "copy"
      /\ task[id].logged = 1
      /\ task[o].pc = "done" /\ task[o].cause = "copy"
      /\ task[o].logged = 0

\* A step of goroutine id: its task state changes while it is running.
TaskStep(id) == TaskAlive(id) /\ task'[id] # task[id]

\* What a step of goroutine id leaves alone: the map, every record, every
\* count of cancel calls, the done contexts, and the channel and the task
\* state of every other record.
TaskStepFrame(id) ==
    /\ watches' = watches
    /\ watch' = watch
    /\ cancelCalls' = cancelCalls
    /\ ctxDone' = ctxDone
    /\ \A o \in (1..Len(task)) \ {id} :
         /\ task'[o] = task[o]
         /\ terminationTime'[o] = terminationTime[o]

\* The map holds one record per name, the record of that name.
OneRecordPerName ==
    /\ DOMAIN watches \subseteq Names
    /\ \A n \in DOMAIN watches :
         /\ watches[n] \in 1..Len(watch)
         /\ watch[watches[n]].name = n

\* C17: a step of a goroutine (open, copy, close, send, exit), a failing
\* one included, changes neither the map nor the record, the cancellation
\* state, the channel or the task state of another source; the map is
\* changed only by steps of diff; the map holds at most one record per
\* name.
C17_TaskStepsKeepToThemselves ==
    /\ [][\A id \in 1..Len(task) : TaskStep(id) => TaskStepFrame(id)]_vars
    /\ [][watches' # watches => oc.pc \in {"diff", "recv"}]_vars
    /\ []OneRecordPerName

\* C17 witness: the goroutine of one source has failed to open and gone
\* while the other source's goroutine copies, both records in the map.
C17_Witness ==
    \E id, o \in 1..Len(task) :
      /\ watch[id].name # watch[o].name
      /\ task[id].pc = "done" /\ task[id].cause = "open"
      /\ task[o].pc = "copy"
      /\ watch[id].name \in DOMAIN watches /\ watches[watch[id].name] = id
      /\ watch[o].name \in DOMAIN watches /\ watches[watch[o].name] = o

\* C18: once a goroutine is at its deferred send, and all the more once it
\* has sent, the stream it opened is closed (and it holds none if the open
\* failed); so the goroutine of a record that diff has replaced holds no
\* open stream.
C18_ClosedBeforeSend ==
    /\ \A id \in 1..Len(task) :
         (task[id].pc = "send" \/ task[id].sent # NoTime) =>
           /\ task[id].stream # "open"
           /\ task[id].cause # "open" => task[id].stream = "closed"
           /\ task[id].cause = "open" => task[id].stream = "none"
    /\ \A r \in 1..Len(watch) :
         watch[r].prev # 0 =>
           /\ task[watch[r].prev].sent # NoTime
           /\ task[watch[r].prev].stream # "open"

\* C18 witness: a replaced record's goroutine had a stream and closed it,
\* and the replacement's goroutine has its own stream open.
C18_Witness ==
    \E r \in 1..Len(watch) :
      /\ watch[r].prev # 0
      /\ task[watch[r].prev].stream = "closed"
      /\ task[r].stream = "open"

\* C19: when diff has returned, setup and teardown share no name and hold
\* at most one entry per name, every setup record is the map's record of
\* its name, no teardown record's name is in the map and, if the snapshot
\* has WatchMounts, every name in the map is in the snapshot.
C19_DiffResultShape ==
    DiffReturned =>
      /\ \A n \in Names :
           /\ Cardinality(SetupOf(n)) <= 1
           /\ Cardinality(TeardownOf(n)) <= 1
           /\ SetupOf(n) = {} \/ TeardownOf(n) = {}
      /\ \A i \in 1..Len(oc.setup) :
           /\ watch[oc.setup[i]].name \in DOMAIN watches
           /\ watches[watch[oc.setup[i]].name] = oc.setup[i]
      /\ \A i \in 1..Len(oc.teardown) :
           watch[oc.teardown[i]].name \notin DOMAIN watches
      /\ oc.state.WatchMounts =>
           DOMAIN watches \subseteq DOMAIN oc.state.ManifestStates

\* C19 witness: a diff with WatchMounts has returned one record to set up
\* and another to tear down, and OnChange has not yet cancelled it.
C19_Witness ==
    /\ oc.pc = "cancel"
    /\ oc.i = 1
    /\ oc.state.WatchMounts
    /\ Len(oc.setup) = 1
    /\ Len(oc.teardown) = 1
    /\ DOMAIN watches = {watch[oc.setup[1]].name}

\* The records the map holds.
InMap == {watches[n] : n \in DOMAIN watches}

\* C20: a record whose own cancel has been called is no longer in the map;
\* so a record in the map has a done context only if the context of the
\* OnChange call that made it is done; and a record made from a context
\* that was done already is replaced by every later diff whose snapshot
\* still wants its source, the replacement's goroutine being started
\* before OnChange returns.
C20_CancelOnlyAfterRemoval ==
    /\ \A id \in 1..Len(watch) : cancelCalls[id] > 0 => id \notin InMap
    /\ \A id \in InMap : CtxErr(id) => watch[id].parent \in ctxDone
    /\ \A id \in 1..Len(watch) :
         watch[id].bornDone => watch[id].parent \in ctxDone
    /\ DiffReturned =>
         \A n \in DOMAIN oc.watches0 :
           (watch[oc.watches0[n]].bornDone /\ Desired(oc.state, n)) =>
             /\ Cardinality(SetupOf(n)) = 1
             /\ TeardownOf(n) = {}
             /\ n \in DOMAIN watches
             /\ watches[n] # oc.watches0[n]
             /\ watch[watches[n]].prev = oc.watches0[n]
             /\ \A i \in SetupOf(n) : oc.setup[i] = watches[n]
    /\ oc.pc = "idle" => \A id \in InMap : task[id].pc # "none"

\* C20 witness: OnChange has returned after replacing, and starting the
\* goroutine of, a record that was made from a done context.
C20_Witness ==
    /\ oc.pc = "idle"
    /\ \E id \in InMap :
         /\ watch[id].prev # 0
         /\ watch[watch[id].prev].bornDone
         /\ cancelCalls[watch[id].prev] = 0
         /\ task[id].pc # "none"
====
